---- MODULE Spec2Model ----
(***************************************************************************)
(* Model of telegram-bot-opencv: the update dispatcher (processUpdate),    *)
(* the bounded execute channel, and the single worker goroutine running    *)
(* processExecuteRequest under executeLock.                                *)
(*                                                                         *)
(* The repository carries two copies of the program: main.go (the earlier  *)
(* one) and the later copy.  They differ in the fallback branch of         *)
(* processUpdate only; the variable `build` says which copy is running.    *)
(***************************************************************************)
EXTENDS Integers, Sequences, FiniteSets, TLC

(***************************************************************************)
(* Bounds of the model.                                                    *)
(***************************************************************************)
MaxUpdates == 6           \* updates delivered in one run of Spec
MaxDispatchUpdates == 2   \* updates delivered in one run of SpecDispatch
MaxWorkerUpdates == 2     \* updates delivered in one run of SpecWorker
MaxFairUpdates == 3       \* updates delivered in one run of SpecFair
MaxLiveUpdates == 5       \* updates delivered in one run of SpecLive

(***************************************************************************)
(* Program constants.                                                      *)
(***************************************************************************)
numQueue == 4

commandStart == "/start"
commandExecute == "/execute"
commandShowCode == "/showcode"

messageDefault == "Input your command:"
messageUnknownCommand == "Unknown command."

StatusWaiting == 0

allKeyboards == << <<commandExecute>>, <<commandShowCode>> >>

(***************************************************************************)
(* Configuration and environment: the allow-list of config.json, the       *)
(* senders, chats and texts an update can carry, the states the script     *)
(* file can be in, and what the Telegram API answers.                      *)
(***************************************************************************)
allowedIds == <<"alice", "bob">>

NoUsername == "<nil>"
Usernames == {"alice", "mallory", NoUsername}
ChatIDs == {101, 102}
Texts == {"", "/start", "/start now", "/execute", "/executes", "/showcode",
          "/star", "foo"}

Builds == {"main.go", "later"}

Unreadable == [ok |-> FALSE, content |-> "", err |-> "open script.py: no such file or directory"]
FileStates == {Unreadable} \cup
              {[ok |-> TRUE, content |-> c, err |-> ""] : c \in {"", "print 1"}}

Description == "Bad Request"

DispatchThreads == {"d1", "d2"}

\* updates the update source delivers
Updates(froms, texts, chats) ==
    {[From |-> f, Text |-> x, ChatID |-> c] : f \in froms, x \in texts, c \in chats}
DispatchUpdates == Updates(Usernames, Texts, ChatIDs)
QueueUpdates == Updates({"alice", "bob", "mallory", NoUsername}, {"/execute", "/start"}, {101})
WorkerUpdates == Updates({"alice"}, {"/execute", "foo"}, ChatIDs)
FairUpdates == Updates({"alice"}, {"/execute", "/start"}, {101})

\* outputs of the script: byte sequences
JPEG == <<255, 216, 255, 224>>
PNG == <<137, 80, 78, 71, 13, 10, 26, 10>>
GIF == <<71, 73, 70, 56, 57, 97, 1>>
MP4 == <<0, 0, 0, 24, 102, 116, 121, 112, 105, 115, 111, 109, 0, 0, 2, 0,
         105, 115, 111, 109, 109, 112, 52, 50>>
WEBM == <<26, 69, 223, 163>>
TextOut == <<32, 111, 107, 10>>
Binary == <<1, 2>>
ShortFtyp == <<0, 0, 0, 8, 102, 116, 121, 112>>

NoError == ""
ScriptOutcomes(errs, outs) == {[err |-> e, bytes |-> o] : e \in errs, o \in outs}
WorkerOutcomes ==
    ScriptOutcomes({NoError, "exit status 1"},
                   {JPEG, PNG, GIF, MP4, WEBM, TextOut, Binary, ShortFtyp, <<>>})
FairOutcomes ==
    {[err |-> NoError, bytes |-> JPEG], [err |-> NoError, bytes |-> MP4],
     [err |-> NoError, bytes |-> TextOut], [err |-> "exit status 1", bytes |-> TextOut]}
FewOutcomes == {[err |-> NoError, bytes |-> JPEG], [err |-> "exit status 1", bytes |-> TextOut]}

(***************************************************************************)
(* Pure functions of the program.                                          *)
(***************************************************************************)
HasPrefix(s, prefix) ==
    /\ Len(s) >= Len(prefix)
    /\ SubSeq(s, 1, Len(prefix)) = prefix

Range(f) == {f[i] : i \in DOMAIN f}

\* mutant: the loop returns true in its first iteration
isAvailableIDFirst(id) == Len(allowedIds) > 0

isAvailableID(id) == \E i \in DOMAIN allowedIds : allowedIds[i] = id

\* fmt.Sprintf(messageErrorFormat, err)
messageErrorFormat(err) == "Error: " \o err

readCode(file) ==
    IF file.ok THEN file.content ELSE messageErrorFormat(file.err)

\* the reply options built for every update
MessageOptions ==
    [reply_markup |-> [Keyboard |-> allKeyboards, ResizeKeyboard |-> TRUE]]

\* default branch of the command switch, later copy
UnknownCommandMessage(txt) ==
    IF Len(txt) > 0 THEN txt \o ": " \o messageUnknownCommand
                    ELSE messageUnknownCommand

\* default branch of the command switch, main.go
UnknownCommandMessageMainGo(txt) == txt \o ": " \o messageUnknownCommand

\* mutant: /execute is compared with the whole text
CommandExecuteExact(status, txt) ==
    IF status # StatusWaiting THEN "none"
    ELSE IF HasPrefix(txt, commandStart) THEN "start"
    ELSE IF txt = commandExecute THEN "execute"
    ELSE IF HasPrefix(txt, commandShowCode) THEN "showcode"
    ELSE "default"

\* mutant: /start is compared with the whole text
CommandStartExact(status, txt) ==
    IF status # StatusWaiting THEN "none"
    ELSE IF txt = commandStart THEN "start"
    ELSE IF HasPrefix(txt, commandExecute) THEN "execute"
    ELSE IF HasPrefix(txt, commandShowCode) THEN "showcode"
    ELSE "default"

\* the case taken by the switch on session status and on the text's prefix
Command(status, txt) ==
    IF status # StatusWaiting THEN "none"
    ELSE IF HasPrefix(txt, commandStart) THEN "start"
    ELSE IF HasPrefix(txt, commandExecute) THEN "execute"
    ELSE IF HasPrefix(txt, commandShowCode) THEN "showcode"
    ELSE "default"

\* the message the taken case assigns
CommandMessage(b, status, txt, f) ==
    LET case == Command(status, txt) IN
    IF case = "start" THEN messageDefault
    ELSE IF case = "execute" THEN ""
    ELSE IF case = "showcode" THEN readCode(f)
    ELSE IF case = "default"
    THEN IF b = "main.go" THEN UnknownCommandMessageMainGo(txt)
                          ELSE UnknownCommandMessage(txt)
    ELSE ""

\* mutant: the loop of init() starts at the second identity
InitSessionsFromSecond ==
    [id \in Range(Tail(allowedIds)) |-> [UserID |-> id, CurrentStatus |-> StatusWaiting]]

\* sessions built by init() from the allow-list
InitSessions ==
    [id \in Range(allowedIds) |-> [UserID |-> id, CurrentStatus |-> StatusWaiting]]

(***************************************************************************)
(* string(bytes): every byte becomes one character of the message; bytes   *)
(* outside printable ASCII are written \xHH here.                          *)
(***************************************************************************)
Printable ==
    " !\"#$%&'()*+,-./0123456789:;<=>?@ABCDEFGHIJKLMNOPQRSTUVWXYZ[\\]^_"
PrintableLower == "abcdefghijklmnopqrstuvwxyz{|}~"
HexDigits == "0123456789ABCDEF"
HexDigit(n) == SubSeq(HexDigits, n + 1, n + 1)
Chr(b) ==
    IF b >= 32 /\ b <= 95 THEN SubSeq(Printable, b - 31, b - 31)
    ELSE IF b >= 97 /\ b <= 126 THEN SubSeq(PrintableLower, b - 96, b - 96)
    ELSE "\\x" \o HexDigit(b \div 16) \o HexDigit(b % 16)

RECURSIVE String(_)
String(bytes) ==
    IF bytes = <<>> THEN "" ELSE Chr(Head(bytes)) \o String(Tail(bytes))

(***************************************************************************)
(* http.DetectContentType: the signatures of net/http's sniffing table     *)
(* that the script outputs of this model can match, in the table's order.  *)
(***************************************************************************)
IsWS(b) == b \in {9, 10, 12, 13, 32}

RECURSIVE FirstNonWS(_, _)
FirstNonWS(data, i) ==
    IF i <= Len(data) /\ IsWS(data[i]) THEN FirstNonWS(data, i + 1) ELSE i

HasSignature(data, sig) ==
    /\ Len(data) >= Len(sig)
    /\ SubSeq(data, 1, Len(sig)) = sig

Uint32(b) == ((b[1] * 256 + b[2]) * 256 + b[3]) * 256 + b[4]

\* mp4Sig.match
Mp4Match(data) ==
    IF Len(data) < 12 THEN FALSE
    ELSE LET boxSize == Uint32(SubSeq(data, 1, 4)) IN
         IF Len(data) < boxSize \/ boxSize % 4 # 0 THEN FALSE
         ELSE IF SubSeq(data, 5, 8) # <<102, 116, 121, 112>> THEN FALSE
         ELSE \E k \in 2..((boxSize \div 4) - 1) :
                 /\ 4 * k # 12
                 /\ SubSeq(data, 4 * k + 1, 4 * k + 3) = <<109, 112, 52>>

\* textSig.match
IsBinaryByte(b) ==
    \/ b <= 8
    \/ b = 11
    \/ (14 <= b /\ b <= 26)
    \/ (28 <= b /\ b <= 31)
TextMatch(data) ==
    \A i \in FirstNonWS(data, 1)..Len(data) : ~IsBinaryByte(data[i])

DetectContentType(data) ==
    IF HasSignature(data, <<66, 77>>) THEN "image/bmp"
    ELSE IF HasSignature(data, <<71, 73, 70, 56, 55, 97>>) THEN "image/gif"
    ELSE IF HasSignature(data, <<71, 73, 70, 56, 57, 97>>) THEN "image/gif"
    ELSE IF HasSignature(data, <<137, 80, 78, 71, 13, 10, 26, 10>>) THEN "image/png"
    ELSE IF HasSignature(data, <<255, 216, 255>>) THEN "image/jpeg"
    ELSE IF HasSignature(data, <<26, 69, 223, 163>>) THEN "video/webm"
    ELSE IF Mp4Match(data) THEN "video/mp4"
    ELSE IF TextMatch(data) THEN "text/plain; charset=utf-8"
    ELSE "application/octet-stream"

\* mutant: the second test repeats the first, so no output is sent as video
DeliveryKindNoVideo(outcome) ==
    IF outcome.err # NoError THEN "error"
    ELSE IF HasPrefix(DetectContentType(outcome.bytes), "image") THEN "photo"
    ELSE IF HasPrefix(DetectContentType(outcome.bytes), "image") THEN "video"
    ELSE "text"

\* mutant: the output is classified before err is looked at
DeliveryKindIgnoresError(outcome) ==
    IF HasPrefix(DetectContentType(outcome.bytes), "image") THEN "photo"
    ELSE IF HasPrefix(DetectContentType(outcome.bytes), "video") THEN "video"
    ELSE IF outcome.err # NoError THEN "error"
    ELSE "text"

\* the branch of processExecuteRequest taken for a script outcome
DeliveryKind(outcome) ==
    IF outcome.err # NoError THEN "error"
    ELSE IF HasPrefix(DetectContentType(outcome.bytes), "image") THEN "photo"
    ELSE IF HasPrefix(DetectContentType(outcome.bytes), "video") THEN "video"
    ELSE "text"

ErrorRunningScript(outcome) ==
    "Error running script: " \o outcome.err \o " (" \o String(outcome.bytes) \o ")"

(***************************************************************************)
(* State.                                                                  *)
(***************************************************************************)
VARIABLES
    build,           \* which copy of the program runs
    Sessions,        \* pool.Sessions
    poolLock,        \* holder of pool's mutex, or "free"
    executeLock,     \* arrival number of the request whose processing holds
                     \* executeLock, or 0 when it is free
    executeChannel,  \* buffered channel of ExecuteRequest
    dpc,             \* position of each dispatch goroutine in processUpdate
    update,          \* the update each dispatch goroutine handles
    file,            \* what ioutil.ReadFile gave readCode for this update
    message,         \* local `message` of processUpdate
    dsent,           \* API calls made by the running processUpdate
    dpushed,         \* requests pushed by the running processUpdate
    result,          \* local `result` of processUpdate
    received,        \* updates delivered so far
    pushed,          \* pushes completed so far (arrival number of the last)
    running,         \* the running calls of processExecuteRequest
    started          \* requests received by the worker so far

vars == <<build, Sessions, poolLock, executeLock, executeChannel, dpc, update,
          file, message, dsent, dpushed, result, received, pushed, running, started>>

wvars == <<executeLock, running, started>>

NoUpdate == [From |-> NoUsername, Text |-> "", ChatID |-> 0]
NoScript == [err |-> NoError, bytes |-> <<>>]
NoFile == [ok |-> FALSE, content |-> "", err |-> ""]

Init ==
    /\ build \in Builds
    /\ Sessions = InitSessions
    /\ poolLock = "free"
    /\ executeLock = 0
    /\ executeChannel = <<>>
    /\ dpc = [t \in DispatchThreads |-> "idle"]
    /\ update = [t \in DispatchThreads |-> NoUpdate]
    /\ file = [t \in DispatchThreads |-> NoFile]
    /\ message = [t \in DispatchThreads |-> ""]
    /\ dsent = [t \in DispatchThreads |-> <<>>]
    /\ dpushed = [t \in DispatchThreads |-> <<>>]
    /\ result = [t \in DispatchThreads |-> FALSE]
    /\ received = 0
    /\ pushed = 0
    /\ running = {}
    /\ started = 0

(***************************************************************************)
(* Calls of the Telegram API, as recorded in dsent and in a call's sent.   *)
(***************************************************************************)
NoOptions == [reply_markup |-> [Keyboard |-> <<>>, ResizeKeyboard |-> FALSE]]

SendChatAction(chat, action) ==
    [kind |-> "action", chat |-> chat, text |-> action, file |-> <<>>,
     options |-> NoOptions, ok |-> TRUE]
SendMessage(chat, msg, options, ok) ==
    [kind |-> "text", chat |-> chat, text |-> msg, file |-> <<>>,
     options |-> options, ok |-> ok]
\* mutant: the photo is sent without the options of the request
SendPhotoNoOptions(chat, bytes, options, ok) ==
    [kind |-> "photo", chat |-> chat, text |-> "", file |-> bytes,
     options |-> NoOptions, ok |-> ok]
SendPhoto(chat, bytes, options, ok) ==
    [kind |-> "photo", chat |-> chat, text |-> "", file |-> bytes,
     options |-> options, ok |-> ok]
SendVideo(chat, bytes, options, ok) ==
    [kind |-> "video", chat |-> chat, text |-> "", file |-> bytes,
     options |-> options, ok |-> ok]

(***************************************************************************)
(* processUpdate, one dispatch goroutine per update.                       *)
(***************************************************************************)
\* the username checks at the top of processUpdate
Allowed(u) == u.From # NoUsername /\ isAvailableID(u.From)

\* mutant: the username checks are made after pool.Lock()
ReceiveUpdateLocksFirst(t, updates, max) ==
    /\ dpc[t] = "idle"
    /\ received < max
    /\ \E u \in updates :
         /\ update' = [update EXCEPT ![t] = u]
         /\ dpc' = [dpc EXCEPT ![t] = "lock"]
    /\ received' = received + 1
    /\ UNCHANGED <<build, Sessions, poolLock, executeChannel, file, message,
                   dsent, dpushed, result, pushed>>
    /\ UNCHANGED wvars

\* the update handler is called with an update; the username checks
ReceiveUpdate(t, updates, max) ==
    /\ dpc[t] = "idle"
    /\ received < max
    /\ \E u \in updates :
         /\ update' = [update EXCEPT ![t] = u]
         /\ dpc' = [dpc EXCEPT ![t] = IF Allowed(u) THEN "lock" ELSE "return"]
    /\ received' = received + 1
    /\ UNCHANGED <<build, Sessions, poolLock, executeChannel, file, message,
                   dsent, dpushed, result, pushed>>
    /\ UNCHANGED wvars

\* mutant: the session lookup and the switch without waiting for the pool's lock
PoolLockNoWait(t, files) ==
    /\ dpc[t] = "lock"
    /\ poolLock' = t
    /\ \E f \in files :
         LET exists == update[t].From \in DOMAIN Sessions
             status == Sessions[update[t].From].CurrentStatus
             msg == IF exists
                    THEN CommandMessage(build, status, update[t].Text, f)
                    ELSE ""
             read == exists /\ Command(status, update[t].Text) = "showcode"
         IN /\ file' = [file EXCEPT ![t] = IF read THEN f ELSE NoFile]
            /\ message' = [message EXCEPT ![t] = msg]
            /\ dpc' = [dpc EXCEPT ![t] =
                          IF ~exists THEN "unlock"
                          ELSE IF Len(msg) > 0 THEN "send" ELSE "push"]
    /\ UNCHANGED <<build, Sessions, executeChannel, update, dsent, dpushed,
                   result, received, pushed>>
    /\ UNCHANGED wvars

\* mutant: the pool is unlocked after the switch when there is no reply to
\* send, so the push on the channel happens outside the locked section
PoolLockFreedForPush(t, files) ==
    /\ dpc[t] = "lock"
    /\ poolLock = "free"
    /\ \E f \in files :
         LET exists == update[t].From \in DOMAIN Sessions
             status == Sessions[update[t].From].CurrentStatus
             msg == IF exists
                    THEN CommandMessage(build, status, update[t].Text, f)
                    ELSE ""
             read == exists /\ Command(status, update[t].Text) = "showcode"
         IN /\ poolLock' = IF exists /\ Len(msg) = 0 THEN "free" ELSE t
            /\ file' = [file EXCEPT ![t] = IF read THEN f ELSE NoFile]
            /\ message' = [message EXCEPT ![t] = msg]
            /\ dpc' = [dpc EXCEPT ![t] =
                          IF ~exists THEN "unlock"
                          ELSE IF Len(msg) > 0 THEN "send" ELSE "push"]
    /\ UNCHANGED <<build, Sessions, executeChannel, update, dsent, dpushed,
                   result, received, pushed>>
    /\ UNCHANGED wvars

\* pool.Lock(), the session lookup and the command switch
PoolLock(t, files) ==
    /\ dpc[t] = "lock"
    /\ poolLock = "free"
    /\ poolLock' = t
    /\ \E f \in files :
         LET exists == update[t].From \in DOMAIN Sessions
             status == Sessions[update[t].From].CurrentStatus
             msg == IF exists
                    THEN CommandMessage(build, status, update[t].Text, f)
                    ELSE ""
             read == exists /\ Command(status, update[t].Text) = "showcode"
         IN /\ file' = [file EXCEPT ![t] = IF read THEN f ELSE NoFile]
            /\ message' = [message EXCEPT ![t] = msg]
            /\ dpc' = [dpc EXCEPT ![t] =
                          IF ~exists THEN "unlock"
                          ELSE IF Len(msg) > 0 THEN "send" ELSE "push"]
    /\ UNCHANGED <<build, Sessions, executeChannel, update, dsent, dpushed,
                   result, received, pushed>>
    /\ UNCHANGED wvars

\* b.SendChatAction and b.SendMessage of the reply
SendReply(t) ==
    /\ dpc[t] = "send"
    /\ \E ok \in BOOLEAN :
         /\ dsent' = [dsent EXCEPT ![t] =
                         dsent[t] \o <<SendChatAction(update[t].ChatID, "typing"),
                                       SendMessage(update[t].ChatID, message[t],
                                                   MessageOptions, ok)>>]
         /\ result' = [result EXCEPT ![t] = ok]
    /\ dpc' = [dpc EXCEPT ![t] = "unlock"]
    /\ UNCHANGED <<build, Sessions, poolLock, executeChannel, update, file,
                   message, dpushed, received, pushed>>
    /\ UNCHANGED wvars

\* mutant: the channel has room for one request more than numQueue
PushRequestOneMore(t) ==
    /\ dpc[t] = "push"
    /\ Len(executeChannel) <= numQueue
    /\ LET r == [ChatID |-> update[t].ChatID, MessageOptions |-> MessageOptions,
                 arrival |-> pushed + 1]
       IN /\ executeChannel' = Append(executeChannel, r)
          /\ dpushed' = [dpushed EXCEPT ![t] = Append(dpushed[t], r)]
    /\ pushed' = pushed + 1
    /\ dpc' = [dpc EXCEPT ![t] = "unlock"]
    /\ UNCHANGED <<build, Sessions, poolLock, update, file, message, dsent,
                   result, received>>
    /\ UNCHANGED <<executeLock, running, started>>

\* mutant: a send that never blocks (an unbounded channel)
PushRequestNoBlock(t) ==
    /\ dpc[t] = "push"
    /\ LET r == [ChatID |-> update[t].ChatID, MessageOptions |-> MessageOptions,
                 arrival |-> pushed + 1]
       IN /\ executeChannel' = Append(executeChannel, r)
          /\ dpushed' = [dpushed EXCEPT ![t] = Append(dpushed[t], r)]
    /\ pushed' = pushed + 1
    /\ dpc' = [dpc EXCEPT ![t] = "unlock"]
    /\ UNCHANGED <<build, Sessions, poolLock, update, file, message, dsent,
                   result, received>>
    /\ UNCHANGED <<executeLock, running, started>>

\* executeChannel <- ExecuteRequest{...}; blocks while the channel is full
PushRequest(t) ==
    /\ dpc[t] = "push"
    /\ Len(executeChannel) < numQueue
    /\ LET r == [ChatID |-> update[t].ChatID, MessageOptions |-> MessageOptions,
                 arrival |-> pushed + 1]
       IN /\ executeChannel' = Append(executeChannel, r)
          /\ dpushed' = [dpushed EXCEPT ![t] = Append(dpushed[t], r)]
    /\ pushed' = pushed + 1
    /\ dpc' = [dpc EXCEPT ![t] = "unlock"]
    /\ UNCHANGED <<build, Sessions, poolLock, update, file, message, dsent,
                   result, received>>
    /\ UNCHANGED wvars

\* pool.Unlock()
PoolUnlock(t) ==
    /\ dpc[t] = "unlock"
    /\ poolLock' = "free"
    /\ dpc' = [dpc EXCEPT ![t] = "return"]
    /\ UNCHANGED <<build, Sessions, executeChannel, update, file, message,
                   dsent, dpushed, result, received, pushed>>
    /\ UNCHANGED wvars

\* return from processUpdate; the goroutine ends
ReturnUpdate(t) ==
    /\ dpc[t] = "return"
    /\ dpc' = [dpc EXCEPT ![t] = "idle"]
    /\ update' = [update EXCEPT ![t] = NoUpdate]
    /\ file' = [file EXCEPT ![t] = NoFile]
    /\ message' = [message EXCEPT ![t] = ""]
    /\ dsent' = [dsent EXCEPT ![t] = <<>>]
    /\ dpushed' = [dpushed EXCEPT ![t] = <<>>]
    /\ result' = [result EXCEPT ![t] = FALSE]
    /\ UNCHANGED <<build, Sessions, poolLock, executeChannel, received, pushed>>
    /\ UNCHANGED wvars

processUpdate(t, updates, files, max) ==
    \/ ReceiveUpdate(t, updates, max)
    \/ PoolLock(t, files)
    \/ SendReply(t)
    \/ PushRequest(t)
    \/ PoolUnlock(t)
    \/ ReturnUpdate(t)

(***************************************************************************)
(* The worker goroutine of main and processExecuteRequest.                 *)
(***************************************************************************)
dvars == <<build, Sessions, poolLock, dpc, update, file, message, dsent,
           dpushed, result, received, pushed>>

Step(call, next) == running' = (running \ {call}) \cup {next}

\* the worker is at its select only when the call it made has returned
WorkerAtSelect == running = {}

NewCall(r) ==
    [request |-> r, pc |-> "lock", script |-> NoScript, message |-> "",
     sent |-> <<>>, result |-> FALSE]

\* mutant: the worker takes the newest request of the channel (a stack)
WorkerReceiveLast ==
    /\ WorkerAtSelect
    /\ executeChannel # <<>>
    /\ executeChannel' = SubSeq(executeChannel, 1, Len(executeChannel) - 1)
    /\ running' = running \cup {NewCall(executeChannel[Len(executeChannel)])}
    /\ started' = started + 1
    /\ UNCHANGED executeLock
    /\ UNCHANGED dvars

\* mutant: `go processExecuteRequest(...)` per request: the loop receives again
\* while the call runs
WorkerReceiveGo ==
    /\ executeChannel # <<>>
    /\ executeChannel' = Tail(executeChannel)
    /\ running' = running \cup {NewCall(Head(executeChannel))}
    /\ started' = started + 1
    /\ UNCHANGED executeLock
    /\ UNCHANGED dvars

\* mutant: the worker locks the pool around its receive
WorkerReceiveUnderPool ==
    /\ WorkerAtSelect
    /\ poolLock = "free"
    /\ executeChannel # <<>>
    /\ executeChannel' = Tail(executeChannel)
    /\ running' = running \cup {NewCall(Head(executeChannel))}
    /\ started' = started + 1
    /\ UNCHANGED executeLock
    /\ UNCHANGED dvars

\* case request := <-executeChannel: processExecuteRequest(client, request)
WorkerReceive ==
    /\ WorkerAtSelect
    /\ executeChannel # <<>>
    /\ executeChannel' = Tail(executeChannel)
    /\ running' = running \cup {NewCall(Head(executeChannel))}
    /\ started' = started + 1
    /\ UNCHANGED executeLock
    /\ UNCHANGED dvars

\* mutant: processExecuteRequest also locks the pool, to mark the session busy
ExecuteLockUnderPool(call) ==
    /\ call.pc = "lock"
    /\ executeLock = 0
    /\ poolLock = "free"
    /\ executeLock' = call.request.arrival
    /\ poolLock' = "worker"
    /\ Step(call, [call EXCEPT !.pc = "run"])
    /\ UNCHANGED <<build, Sessions, executeChannel, dpc, update, file, message,
                   dsent, dpushed, result, received, pushed, started>>

\* executeLock.Lock()
ExecuteLock(call) ==
    /\ call.pc = "lock"
    /\ executeLock = 0
    /\ executeLock' = call.request.arrival
    /\ Step(call, [call EXCEPT !.pc = "run"])
    /\ UNCHANGED <<executeChannel, started>>
    /\ UNCHANGED dvars

\* mutant: a script that failed is run again
RunScriptRetries(call, outcomes) ==
    /\ call.pc = "run"
    /\ \E o \in outcomes :
         Step(call, [call EXCEPT
                       !.pc = IF o.err # NoError /\ call.script = NoScript
                              THEN "run" ELSE "respond",
                       !.script = o,
                       !.sent = Append(@, SendChatAction(call.request.ChatID, "typing"))])
    /\ UNCHANGED <<executeLock, executeChannel, started>>
    /\ UNCHANGED dvars

\* b.SendChatAction(typing) and exec.Command(scriptPath).CombinedOutput()
RunScript(call, outcomes) ==
    /\ call.pc = "run"
    /\ \E o \in outcomes :
         Step(call, [call EXCEPT
                       !.pc = "respond",
                       !.script = o,
                       !.sent = Append(@, SendChatAction(call.request.ChatID, "typing"))])
    /\ UNCHANGED <<executeLock, executeChannel, started>>
    /\ UNCHANGED dvars

\* the first delivery: error text, photo, video or text
Respond(call) ==
    /\ call.pc = "respond"
    /\ \E ok \in BOOLEAN :
         LET kind == DeliveryKind(call.script)
             chat == call.request.ChatID
             opts == call.request.MessageOptions
             calls ==
               IF kind = "error"
               THEN <<SendMessage(chat, ErrorRunningScript(call.script), opts, ok)>>
               ELSE IF kind = "photo"
               THEN <<SendChatAction(chat, "upload_photo"),
                      SendPhoto(chat, call.script.bytes, opts, ok)>>
               ELSE IF kind = "video"
               THEN <<SendChatAction(chat, "upload_video"),
                      SendVideo(chat, call.script.bytes, opts, ok)>>
               ELSE <<SendMessage(chat, String(call.script.bytes), opts, ok)>>
             failed == ~ok /\ kind \in {"photo", "video"}
         IN Step(call, [call EXCEPT
                          !.pc = IF failed THEN "fallback" ELSE "return",
                          !.message = IF failed
                                      THEN "Failed to send " \o kind \o ": " \o Description
                                      ELSE "",
                          !.sent = @ \o calls,
                          !.result = ok])
    /\ UNCHANGED <<executeLock, executeChannel, started>>
    /\ UNCHANGED dvars

\* mutant: the fallback text is sent again until it gets through
FallbackRetries(call) ==
    /\ call.pc = "fallback"
    /\ \E ok \in BOOLEAN :
         Step(call, [call EXCEPT
                       !.pc = IF ok THEN "return" ELSE "fallback",
                       !.sent = Append(@, SendMessage(call.request.ChatID, call.message,
                                                      call.request.MessageOptions, ok)),
                       !.result = ok])
    /\ UNCHANGED <<executeLock, executeChannel, started>>
    /\ UNCHANGED dvars

\* mutant: a failed photo or video send is logged and nothing else is sent
FallbackLogsOnly(call) ==
    /\ call.pc = "fallback"
    /\ Step(call, [call EXCEPT !.pc = "return"])
    /\ UNCHANGED <<executeLock, executeChannel, started>>
    /\ UNCHANGED dvars

\* the text sent after a failed photo or video send
Fallback(call) ==
    /\ call.pc = "fallback"
    /\ \E ok \in BOOLEAN :
         Step(call, [call EXCEPT
                       !.pc = "return",
                       !.sent = Append(@, SendMessage(call.request.ChatID, call.message,
                                                      call.request.MessageOptions, ok)),
                       !.result = ok])
    /\ UNCHANGED <<executeLock, executeChannel, started>>
    /\ UNCHANGED dvars

\* mutant: Unlock() is called at the end of the delivery paths instead of being
\* deferred, so the early return after a script error keeps the lock
ReturnKeepsLockOnError(call) ==
    /\ call.pc = "return"
    /\ executeLock' = IF call.script.err # NoError THEN executeLock ELSE 0
    /\ running' = running \ {call}
    /\ UNCHANGED <<executeChannel, started>>
    /\ UNCHANGED dvars

\* mutant: a request that ended in a failure ends the worker goroutine
ReturnExitsOnFailure(call) ==
    /\ call.pc = "return"
    /\ call.result
    /\ executeLock' = 0
    /\ running' = running \ {call}
    /\ UNCHANGED <<executeChannel, started>>
    /\ UNCHANGED dvars

\* return result, with the deferred executeLock.Unlock()
Return(call) ==
    /\ call.pc = "return"
    /\ executeLock' = 0
    /\ running' = running \ {call}
    /\ UNCHANGED <<executeChannel, started>>
    /\ UNCHANGED dvars

\* mutant: with `go processExecuteRequest(...)` per request, a mutex that is
\* local to the call and so excludes nothing
ExecuteLockLocal(call) ==
    /\ call.pc = "lock"
    /\ executeLock' = call.request.arrival
    /\ Step(call, [call EXCEPT !.pc = "run"])
    /\ UNCHANGED <<executeChannel, started>>
    /\ UNCHANGED dvars
WorkerUnserialized(outcomes) ==
    \/ WorkerReceiveGo
    \/ \E call \in running :
          \/ ExecuteLockLocal(call)
          \/ RunScript(call, outcomes)
          \/ Respond(call)
          \/ Fallback(call)
          \/ Return(call)

processExecuteRequest(call, outcomes) ==
    \/ ExecuteLock(call)
    \/ RunScript(call, outcomes)
    \/ Respond(call)
    \/ Fallback(call)
    \/ Return(call)

Worker(outcomes) ==
    \/ WorkerReceive
    \/ \E call \in running : processExecuteRequest(call, outcomes)

(***************************************************************************)
(* Specifications.  Spec fills the channel with few kinds of updates;      *)
(* SpecDispatch delivers every kind of update; SpecWorker lets the script  *)
(* produce every kind of output.                                           *)
(***************************************************************************)
OneFile == {[ok |-> TRUE, content |-> "print 1", err |-> ""]}

Next ==
    \/ \E t \in DispatchThreads : processUpdate(t, QueueUpdates, OneFile, MaxUpdates)
    \/ Worker(FewOutcomes)

NextDispatch ==
    \/ \E t \in DispatchThreads :
          processUpdate(t, DispatchUpdates, FileStates, MaxDispatchUpdates)
    \/ Worker(FewOutcomes)

NextWorker ==
    \/ \E t \in DispatchThreads :
          processUpdate(t, WorkerUpdates, OneFile, MaxWorkerUpdates)
    \/ Worker(WorkerOutcomes)

NextFair ==
    \/ \E t \in DispatchThreads :
          processUpdate(t, FairUpdates, OneFile, MaxFairUpdates)
    \/ Worker(FairOutcomes)

NextLive ==
    \/ \E t \in DispatchThreads :
          processUpdate(t, FairUpdates, OneFile, MaxLiveUpdates)
    \/ Worker(FewOutcomes)

Spec == Init /\ [][Next]_vars
SpecDispatch == Init /\ [][NextDispatch]_vars
SpecWorker == Init /\ [][NextWorker]_vars

\* the worker goroutine is scheduled, and the script and the sends of the
\* request it processes return
SpecFair == Init /\ [][NextFair]_vars /\ WF_vars(Worker(FairOutcomes))

\* also the dispatch goroutines are scheduled once they hold the pool's
\* lock: the reply send returns, the channel send completes when the channel
\* has room, and the goroutine unlocks and returns
SpecLive ==
    /\ Init /\ [][NextLive]_vars
    /\ WF_vars(Worker(FewOutcomes))
    /\ \A t \in DispatchThreads :
          WF_vars(SendReply(t) \/ PushRequest(t) \/ PoolUnlock(t) \/ ReturnUpdate(t))

(***************************************************************************)
(* Properties.                                                             *)
(***************************************************************************)
\* the calls of processExecuteRequest between executeLock.Lock() and the
\* deferred executeLock.Unlock()
Holders == {call \in running : call.pc \in {"run", "respond", "fallback", "return"}}

\* C1: in every reachable state at most one call of processExecuteRequest is
\* between acquiring and releasing executeLock, and the lock is held exactly
\* when there is one, whatever the channel holds and the dispatchers do.
C1_AtMostOneInFlight ==
    /\ Cardinality(Holders) <= 1
    /\ (Holders = {}) = (executeLock = 0)
    /\ \A call \in Holders : executeLock = call.request.arrival

\* the lock is held during delivery while requests wait in the channel and
\* a dispatch is in progress
C1_Witness ==
    /\ \E call \in Holders : call.pc = "respond"
    /\ Len(executeChannel) >= 2
    /\ \E t \in DispatchThreads : dpc[t] = "push"

\* C2: the channel never holds more than numQueue requests, and a dispatch
\* that is at its push while the channel holds numQueue stays there in every
\* step (it can move on only after a step of the worker has made room).
C2_QueueBounded ==
    /\ [](Len(executeChannel) <= numQueue)
    /\ [][\A t \in DispatchThreads :
            (dpc[t] = "push" /\ Len(executeChannel) = numQueue) => dpc'[t] = "push"]_vars

\* a fifth push waits on a channel that holds four requests
C2_Witness ==
    /\ Len(executeChannel) = numQueue
    /\ \E t \in DispatchThreads : dpc[t] = "push"

\* C3: requests are processed in the order their pushes completed: the
\* channel holds, in order, exactly the arrivals after the last one the worker
\* received, and the only call that has not returned is that of the last one
\* received, so the n-th request pushed is the n-th started and it has
\* finished before the next starts.
C3_ArrivalOrder ==
    /\ \A i \in 1..Len(executeChannel) : executeChannel[i].arrival = started + i
    /\ \A call \in running : call.request.arrival = started
    /\ started + Len(executeChannel) = pushed

\* the third request is processed while two later ones, pushed by different
\* dispatch goroutines, wait
C3_Witness ==
    /\ started = 3
    /\ \E call \in running : call.pc = "respond" /\ call.request.arrival = 3
    /\ Len(executeChannel) = 2
    /\ \E t1, t2 \in DispatchThreads :
          /\ t1 # t2
          /\ dpc[t1] = "return" /\ dpushed[t1] = <<executeChannel[1]>>
          /\ dpc[t2] = "unlock" /\ dpushed[t2] = <<executeChannel[2]>>

\* what the properties of processUpdate speak of
Handling(t) == dpc[t] # "idle"
Finished(t) == dpc[t] \in {"unlock", "return"}
FromAllowed(t) == update[t].From \in {"alice", "bob"}
StandardOptions ==
    [reply_markup |-> [Keyboard |-> << <<"/execute">>, <<"/showcode">> >>,
                       ResizeKeyboard |-> TRUE]]
RepliedWith(t, msg) ==
    /\ Len(dsent[t]) = 2
    /\ dsent[t][1].kind = "action" /\ dsent[t][1].chat = update[t].ChatID
    /\ dsent[t][2].kind = "text" /\ dsent[t][2].chat = update[t].ChatID
    /\ dsent[t][2].text = msg
    /\ dsent[t][2].options = StandardOptions
NothingPushed(t) == dpushed[t] = <<>> /\ dpc[t] # "push"

\* C4: an update whose sender has no username or is not in the allow-list
\* is dropped whatever its text: processUpdate goes straight to its return, with
\* no API call, no request pushed, the pool's lock not taken and the sessions
\* as init() built them.
C4_NotAllowedDropped ==
    /\ Sessions = [id \in {"alice", "bob"} |-> [UserID |-> id, CurrentStatus |-> 0]]
    /\ \A t \in DispatchThreads :
          (Handling(t) /\ ~FromAllowed(t)) =>
             /\ dpc[t] = "return"
             /\ dsent[t] = <<>>
             /\ dpushed[t] = <<>>
             /\ poolLock # t
             /\ result[t] = FALSE

\* /execute from a sender outside the allow-list and /showcode from a sender
\* without username, both dropped
C4_Witness ==
    \E t1, t2 \in DispatchThreads :
       /\ dpc[t1] = "return" /\ update[t1].From = "mallory"
       /\ update[t1].Text = "/execute"
       /\ dpc[t2] = "return" /\ update[t2].From = NoUsername
       /\ update[t2].Text = "/showcode"
       /\ executeChannel = <<>> /\ pushed = 0

\* C5: for an allowed sender, a text that starts with /execute is never
\* answered with a reply, and when processUpdate is past its push it has pushed
\* exactly one request, which carries the update's chat and the standard
\* keyboard options and is in the channel until the worker receives it.
C5_ExecuteEnqueues ==
    \A t \in DispatchThreads :
       (Handling(t) /\ FromAllowed(t) /\ HasPrefix(update[t].Text, "/execute")) =>
          /\ dsent[t] = <<>>
          /\ dpc[t] \in {"lock", "push", "unlock", "return"}
          /\ ~Finished(t) => dpushed[t] = <<>>
          /\ Finished(t) =>
                /\ Len(dpushed[t]) = 1
                /\ dpushed[t][1].ChatID = update[t].ChatID
                /\ dpushed[t][1].MessageOptions = StandardOptions
                /\ dpushed[t][1].arrival > started =>
                      \E i \in 1..Len(executeChannel) : executeChannel[i] = dpushed[t][1]

\* "/executes" of chat 102 has been pushed and waits in the channel
C5_Witness ==
    \E t \in DispatchThreads :
       /\ dpc[t] = "return" /\ update[t].From = "alice"
       /\ update[t].Text = "/executes" /\ update[t].ChatID = 102
       /\ Len(dpushed[t]) = 1
       /\ executeChannel = dpushed[t]

\* C6: for an allowed sender, a text that starts with /showcode never
\* pushes a request and is answered with the contents of the script file when
\* the file is readable, an empty file included, and with "Error: <err>" when
\* it is not.
C6_ShowCodeReplies ==
    \A t \in DispatchThreads :
       (Handling(t) /\ FromAllowed(t) /\ HasPrefix(update[t].Text, "/showcode")) =>
          /\ NothingPushed(t)
          /\ Finished(t) =>
                RepliedWith(t, IF file[t].ok THEN file[t].content
                                            ELSE "Error: " \o file[t].err)

\* C7: for an allowed sender, a text with none of the three prefixes never
\* pushes a request and is answered "<text>: Unknown command.", or
\* "Unknown command." when the text is empty.
C7_UnknownCommandReplies ==
    \A t \in DispatchThreads :
       (/\ Handling(t) /\ FromAllowed(t)
        /\ ~HasPrefix(update[t].Text, "/start")
        /\ ~HasPrefix(update[t].Text, "/execute")
        /\ ~HasPrefix(update[t].Text, "/showcode")) =>
          /\ NothingPushed(t)
          /\ Finished(t) =>
                RepliedWith(t, IF update[t].Text = "" THEN "Unknown command."
                               ELSE update[t].Text \o ": Unknown command.")

\* C8: for an allowed sender, a text that starts with /start never pushes
\* a request and is answered "Input your command:", whatever follows /start.
C8_StartReplies ==
    \A t \in DispatchThreads :
       (Handling(t) /\ FromAllowed(t) /\ HasPrefix(update[t].Text, "/start")) =>
          /\ NothingPushed(t)
          /\ dpc[t] \in {"lock", "send", "unlock", "return"}
          /\ Finished(t) => RepliedWith(t, "Input your command:")

\* "/start now" has been answered with the prompt
C8_Witness ==
    \E t \in DispatchThreads :
       /\ dpc[t] = "return" /\ update[t].From = "alice"
       /\ update[t].Text = "/start now"
       /\ RepliedWith(t, "Input your command:")
       /\ dsent[t][2].ok

\* what the properties of processExecuteRequest speak of
IsDelivery(call) == call.kind # "action"
Deliveries(call) == SelectSeq(call.sent, IsDelivery)
Responded(call) == call.pc \in {"fallback", "return"}
ImageOutputs == {JPEG, PNG, GIF}
VideoOutputs == {MP4, WEBM}
ExpectedKind(bytes) ==
    IF bytes \in ImageOutputs THEN "photo"
    ELSE IF bytes \in VideoOutputs THEN "video"
    ELSE "text"
ExpectedText(bytes) ==
    IF bytes = TextOut THEN " ok\\x0A"
    ELSE IF bytes = Binary THEN "\\x01\\x02"
    ELSE IF bytes = ShortFtyp THEN "\\x00\\x00\\x00\\x08ftyp"
    ELSE IF bytes = JPEG THEN "\\xFF\\xD8\\xFF\\xE0"
    ELSE IF bytes = <<>> THEN ""
    ELSE String(bytes)

\* C9: when the script succeeded, the first delivery of the call is the one
\* of the output's content class: a photo send of the bytes for an image, a
\* video send of the bytes for a video, a text send of the bytes as a string for
\* anything else; and a call makes at most one photo or video send.
C9_DeliveryByContentClass ==
    \A call \in running :
       (Responded(call) /\ call.script.err = "") =>
          LET d == Deliveries(call)
              bytes == call.script.bytes IN
          /\ Len(d) >= 1
          /\ d[1].kind = ExpectedKind(bytes)
          /\ d[1].chat = call.request.ChatID
          /\ d[1].kind \in {"photo", "video"} => d[1].file = bytes
          /\ d[1].kind = "text" => d[1].text = ExpectedText(bytes)
          /\ \A i \in 2..Len(d) : d[i].kind = "text"

\* an MP4 output has been sent as a video
C9_Witness ==
    \E call \in running :
       /\ call.pc = "return"
       /\ call.script = [err |-> "", bytes |-> MP4]
       /\ Len(Deliveries(call)) = 1
       /\ Deliveries(call)[1].kind = "video"
       /\ Deliveries(call)[1].ok

\* C10: when the script returned an error, the call sends exactly one text,
\* "Error running script: <error> (<output>)", to the request's chat, and makes
\* no photo send and no video send, also when the output is an image.
C10_ScriptErrorReply ==
    \A call \in running :
       call.script.err # "" =>
          LET d == Deliveries(call) IN
          /\ call.pc \in {"respond", "return"}
          /\ call.pc = "respond" => d = <<>>
          /\ call.pc = "return" =>
                /\ Len(d) = 1
                /\ d[1].kind = "text"
                /\ d[1].chat = call.request.ChatID
                /\ d[1].text = "Error running script: " \o call.script.err \o " ("
                                   \o ExpectedText(call.script.bytes) \o ")"
          /\ \A i \in 1..Len(call.sent) :
                /\ call.sent[i].kind \notin {"photo", "video"}
                /\ call.sent[i].text \notin {"upload_photo", "upload_video"}

\* the script failed after it wrote a JPEG: one error text, no photo
C10_Witness ==
    \E call \in running :
       /\ call.pc = "return"
       /\ call.script = [err |-> "exit status 1", bytes |-> JPEG]
       /\ Len(Deliveries(call)) = 1
       /\ Deliveries(call)[1].text =
             "Error running script: exit status 1 (\\xFF\\xD8\\xFF\\xE0)"

\* C11: when the photo or video send of a call failed, the call sends
\* exactly one further message, a text "Failed to send photo: <description>"
\* (or video) to the same chat, and sends it once whether or not it gets
\* through; when the photo or video send succeeded, the call sends nothing
\* more.
C11_FallbackOnce ==
    \A call \in running :
       LET d == Deliveries(call) IN
       (Len(d) >= 1 /\ d[1].kind \in {"photo", "video"}) =>
          /\ d[1].ok => (Len(d) = 1 /\ call.pc = "return")
          /\ (~d[1].ok /\ call.pc = "fallback") => Len(d) = 1
          /\ (~d[1].ok /\ call.pc = "return") =>
                /\ Len(d) = 2
                /\ d[2].kind = "text"
                /\ d[2].chat = d[1].chat
                /\ d[2].text = (IF d[1].kind = "photo" THEN "Failed to send photo: "
                                                        ELSE "Failed to send video: ")
                                  \o "Bad Request"
          /\ call.pc \in {"fallback", "return"}

\* a video send failed, and the fallback text failed too and was not repeated
C11_Witness ==
    \E call \in running :
       /\ call.pc = "return"
       /\ call.script = [err |-> "", bytes |-> MP4]
       /\ Len(Deliveries(call)) = 2
       /\ ~Deliveries(call)[1].ok
       /\ Deliveries(call)[2].text = "Failed to send video: Bad Request"
       /\ ~Deliveries(call)[2].ok

\* C12: a call has sent nothing and run nothing before it holds executeLock;
\* from then on it holds the lock in every state up to its return, through the
\* first delivery and the fallback; and whenever a call returns, whatever
\* happened in it, executeLock is free in the next state.
C12_LockHeldUntilReturn ==
    /\ [](\A call \in running :
            /\ call.pc = "lock" => (call.sent = <<>> /\ call.script = NoScript)
            /\ call.pc # "lock" => executeLock = call.request.arrival)
    /\ [][\A call \in running :
            (\A next \in running' : next.request # call.request) => executeLock' = 0]_vars
    /\ [](running = {} => executeLock = 0)

\* the second request is being processed, so the lock was released after the
\* first and taken again, and it is still held after a failed photo send and
\* a failed fallback
C12_Witness ==
    \E call \in running :
       /\ call.request.arrival = 2
       /\ executeLock = 2
       /\ call.pc = "return"
       /\ call.script.err = NoError
       /\ Len(Deliveries(call)) = 2
       /\ Deliveries(call)[1].kind = "photo"
       /\ ~Deliveries(call)[2].ok

\* C13: when the processing of a request has met a failure (the script
\* failed, or a photo, video, text or fallback send failed) while another
\* request is queued, the worker eventually runs the script for the next
\* request in arrival order.
FailedOutcome(call) ==
    /\ call.script # NoScript
    /\ \/ call.script.err # NoError
       \/ \E i \in DOMAIN call.sent : ~call.sent[i].ok
C13_WorkerSurvivesFailure ==
    \A n \in 1..MaxFairUpdates :
       (/\ \E call \in running : call.request.arrival = n /\ FailedOutcome(call)
        /\ executeChannel # <<>>)
       ~> (\E call \in running : call.request.arrival = n + 1 /\ call.script # NoScript)

\* the photo send and the fallback of the first request failed, the second
\* request is queued
C13_Witness ==
    /\ executeChannel # <<>>
    /\ \E call \in running :
          /\ call.request.arrival = 1
          /\ call.pc = "return"
          /\ call.script.err = NoError
          /\ Len(Deliveries(call)) = 2
          /\ ~Deliveries(call)[1].ok
          /\ ~Deliveries(call)[2].ok
          /\ ~call.result

\* C14: every request pushed so far is in exactly one place: once in the
\* channel, or received by the worker (and then never in the channel again);
\* a received request has one call, and that call has invoked the script
\* (announced by one typing action) not at all before the script step and
\* exactly once after it, also when the script failed.
IsTyping(m) == m.kind = "action" /\ m.text = "typing"
Invocations(call) == Len(SelectSeq(call.sent, IsTyping))
Queued(n) == {i \in DOMAIN executeChannel : executeChannel[i].arrival = n}
C14_ConsumedExactlyOnce ==
    /\ \A n \in 1..pushed :
          IF n <= started THEN Queued(n) = {} ELSE Cardinality(Queued(n)) = 1
    /\ \A i \in DOMAIN executeChannel : executeChannel[i].arrival \in (started + 1)..pushed
    /\ \A call \in running :
          /\ call.request.arrival \in 1..started
          /\ \A other \in running : other.request.arrival = call.request.arrival => other = call
          /\ Invocations(call) = IF call.pc \in {"lock", "run"} THEN 0 ELSE 1
          /\ (call.pc \in {"lock", "run"}) = (call.script = NoScript)

\* the script failed for the second request and its call is about to return
\* after one invocation, while two more requests are queued
C14_Witness ==
    /\ started = 2
    /\ Len(executeChannel) = 2
    /\ \E call \in running :
          /\ call.pc = "return"
          /\ call.request.arrival = 2
          /\ call.script.err # NoError
          /\ Invocations(call) = 1

\* C15: the pool has a session for exactly the identities of the allow-list,
\* each in status waiting, in every state; and an update whose sender passed
\* the allow-list check never leaves the locked section through the
\* "session does not exist" branch: when it is past the switch it has sent a
\* reply or pushed a request.
C15_SessionsFixed ==
    /\ DOMAIN Sessions = {allowedIds[i] : i \in DOMAIN allowedIds}
    /\ \A id \in DOMAIN Sessions :
          Sessions[id] = [UserID |-> id, CurrentStatus |-> StatusWaiting]
    /\ \A t \in DispatchThreads :
          (Handling(t) /\ Allowed(update[t])) =>
             /\ update[t].From \in DOMAIN Sessions
             /\ Finished(t) => (dsent[t] # <<>> \/ dpushed[t] # <<>>)

\* two updates of an allowed sender found the session: one was answered, the
\* other pushed a request
C15_Witness ==
    \E t1, t2 \in DispatchThreads :
       /\ update[t1].From = "alice" /\ dpc[t1] = "return" /\ dsent[t1] # <<>>
       /\ update[t2].From = "alice" /\ dpc[t2] = "unlock" /\ dpushed[t2] # <<>>
       /\ Sessions["alice"].CurrentStatus = StatusWaiting

\* C16: as long as the script of a call has not returned, the worker
\* receives nothing (no step removes a request from the channel or starts
\* another call: the channel only grows at its end), a push is possible
\* exactly while the channel holds fewer than numQueue requests, and a
\* dispatch that is at its push on a full channel stays there, with the
\* pool's lock, in every step.
ScriptRunning == \E call \in running : call.pc = "run"
C16_HungScriptBlocksQueue ==
    /\ [](ScriptRunning =>
            /\ ~ENABLED WorkerReceive
            /\ \A t \in DispatchThreads :
                  dpc[t] = "push" =>
                     (ENABLED PushRequest(t) <=> Len(executeChannel) < numQueue))
    /\ [][(ScriptRunning /\ ScriptRunning') =>
            /\ started' = started
            /\ running' = running
            /\ Len(executeChannel') >= Len(executeChannel)
            /\ SubSeq(executeChannel', 1, Len(executeChannel)) = executeChannel
            /\ \A t \in DispatchThreads :
                  (dpc[t] = "push" /\ Len(executeChannel) = numQueue) =>
                     (dpc'[t] = "push" /\ poolLock' = t)]_vars

\* the script of the first request runs, four requests are queued and a
\* dispatch waits at its push with the pool's lock
C16_Witness ==
    /\ \E call \in running : call.pc = "run" /\ call.request.arrival = 1
    /\ Len(executeChannel) = numQueue
    /\ pushed = numQueue + 1
    /\ \E t \in DispatchThreads : dpc[t] = "push" /\ poolLock = t

\* C17 as stated: whatever fails, the requester gets something to see. An
\* update of an allowed sender that is past the switch has pushed a request
\* or its reply has arrived; a call that returns has delivered its photo or
\* video, or a text has arrived in the chat of its request.
Arrived(m, chat) == m.ok /\ m.chat = chat
C17_NeverSilent ==
    /\ \A t \in DispatchThreads :
          (Finished(t) /\ FromAllowed(t)) =>
             \/ dpushed[t] # <<>>
             \/ \E i \in DOMAIN dsent[t] :
                   dsent[t][i].kind = "text" /\ Arrived(dsent[t][i], update[t].ChatID)
    /\ \A call \in running :
          call.pc = "return" =>
             \E i \in DOMAIN call.sent :
                /\ IsDelivery(call.sent[i])
                /\ Arrived(call.sent[i], call.request.ChatID)

\* C17, amended: every failure except a failed text send is followed by one
\* text sent to the requester (the error text after a script failure, the
\* fallback after a failed photo or video send, the reply to a command that is
\* not understood); a text send that fails (reply, error text, text output
\* or fallback) is followed by nothing, and those are the only updates of
\* allowed senders and the only calls for which nothing arrives.
C17_SilentOnlyAfterFailedText ==
    /\ \A t \in DispatchThreads :
          (Finished(t) /\ FromAllowed(t) /\ dpushed[t] = <<>>) =>
             /\ Len(dsent[t]) = 2
             /\ dsent[t][2].kind = "text"
             /\ dsent[t][2].chat = update[t].ChatID
             /\ dsent[t][2].text = message[t]
             /\ result[t] = dsent[t][2].ok
    /\ \A call \in running :
          call.pc = "return" =>
             LET d == Deliveries(call)
                 last == d[Len(d)]
             IN /\ Len(d) \in {1, 2}
                /\ \A i \in DOMAIN d : d[i].chat = call.request.ChatID
                /\ call.script.err # NoError => d[1].kind = "text"
                /\ \A i \in DOMAIN d :
                      (~d[i].ok /\ d[i].kind # "text") =>
                         (i < Len(d) /\ d[i + 1].kind = "text")
                /\ (\A i \in DOMAIN d : ~d[i].ok) => (last.kind = "text" /\ ~call.result)
                /\ last.ok \/ last.kind = "text"

\* the script printed nothing and exited with success, the send of the empty
\* text failed and the call returns: nothing arrives in the chat
C17_Witness ==
    \E call \in running :
       /\ call.pc = "return"
       /\ call.script = [err |-> NoError, bytes |-> <<>>]
       /\ Len(Deliveries(call)) = 1
       /\ Deliveries(call)[1].kind = "text"
       /\ Deliveries(call)[1].text = ""
       /\ ~Deliveries(call)[1].ok

\* C18: the pool's lock is only ever held by a dispatch goroutine that is
\* inside its locked section, executeLock only by a call the worker made; a
\* step that takes or releases one of the two locks leaves the other lock
\* and the other side's state as they are; and whoever waits for one of the
\* locks gets it as soon as that lock is free, whatever the state of the
\* other lock.
C18_LocksIndependent ==
    /\ [](/\ poolLock \in DispatchThreads \cup {"free"}
          /\ \A t \in DispatchThreads : (poolLock = t) = (dpc[t] \in {"send", "push", "unlock"})
          /\ executeLock # 0 => \E call \in running : call.request.arrival = executeLock
                                                     /\ call.pc # "lock")
    /\ [](/\ \A t \in DispatchThreads :
                (dpc[t] = "lock" /\ poolLock = "free") => ENABLED PoolLock(t, OneFile)
          /\ \A call \in running :
                (call.pc = "lock" /\ executeLock = 0) => ENABLED ExecuteLock(call))
    /\ [][/\ executeLock' # executeLock => (poolLock' = poolLock /\ dpc' = dpc)
          /\ poolLock' # poolLock => (executeLock' = executeLock /\ running' = running)]_vars

\* both locks are held at once, by different goroutines: a dispatch waits at
\* its push with the pool's lock while the worker delivers under executeLock
C18_Witness ==
    /\ \E t \in DispatchThreads : poolLock = t /\ dpc[t] = "push"
    /\ \E call \in running : call.pc = "respond" /\ executeLock = call.request.arrival
    /\ \E t \in DispatchThreads : dpc[t] = "lock"

\* C19: a request carries the chat of the update that pushed it and the
\* standard keyboard; every API call of the call that processes it goes to
\* that chat, every message, photo or video with the options of the request;
\* and when the script succeeded with image bytes the first delivery is a
\* photo of exactly those bytes.
C19_RepliesToRequester ==
    \A call \in running :
       /\ call.request.MessageOptions = StandardOptions
       /\ \A t \in DispatchThreads :
             dpushed[t] = <<call.request>> => call.request.ChatID = update[t].ChatID
       /\ \A i \in DOMAIN call.sent :
             /\ call.sent[i].chat = call.request.ChatID
             /\ IsDelivery(call.sent[i]) => call.sent[i].options = call.request.MessageOptions
       /\ (Responded(call) /\ call.script.err = NoError
                            /\ call.script.bytes \in ImageOutputs) =>
             /\ Deliveries(call)[1].kind = "photo"
             /\ Deliveries(call)[1].file = call.script.bytes
             /\ Deliveries(call)[1].chat = call.request.ChatID
             /\ Deliveries(call)[1].options = StandardOptions

\* the photo for a request from chat 102 has been sent to chat 102 while a
\* request from chat 101 is queued
C19_Witness ==
    /\ \E call \in running :
          /\ call.pc = "return"
          /\ call.request.ChatID = 102
          /\ call.script = [err |-> NoError, bytes |-> JPEG]
          /\ Deliveries(call) = <<SendPhoto(102, JPEG, StandardOptions, TRUE)>>
          /\ \E t \in DispatchThreads :
                dpushed[t] = <<call.request>> /\ update[t].ChatID = 102
    /\ Len(executeChannel) = 1
    /\ executeChannel[1].ChatID = 101

\* C20: at most one dispatch goroutine is between its session lookup and its
\* pool.Unlock(), and it is the holder of the pool's lock: the lock is held
\* while the reply is being sent and while the push waits; meanwhile a second
\* update of an allowed sender cannot pass pool.Lock(); and when no
\* processUpdate is inside that section the lock is free.
InSection(t) == dpc[t] \in {"send", "push", "unlock"}
C20_DispatchSerialized ==
    /\ Cardinality({t \in DispatchThreads : InSection(t)}) <= 1
    /\ \A t \in DispatchThreads : InSection(t) => poolLock = t
    /\ \A t \in DispatchThreads :
          (dpc[t] = "lock" /\ \E u \in DispatchThreads : InSection(u)) =>
             ~ENABLED PoolLock(t, FileStates)
    /\ (\A t \in DispatchThreads : dpc[t] \in {"idle", "lock", "return"}) => poolLock = "free"
    /\ \A t \in DispatchThreads : dpc[t] \in {"idle", "return"} => poolLock # t

\* the reply to one allowed update is about to be sent under the pool's lock
\* while a second allowed update waits at pool.Lock()
C20_Witness ==
    \E t1, t2 \in DispatchThreads :
       /\ dpc[t1] = "send" /\ poolLock = t1 /\ message[t1] = messageDefault
       /\ dpc[t2] = "lock" /\ Allowed(update[t2])

\* C21: a dispatch that is at its push holds the pool's lock; while it is
\* there no other dispatch can pass pool.Lock() and no step sends a reply to
\* anybody; and a dispatch that waits on a full channel leaves its push only
\* in a step that follows a receive of the worker, so until then every
\* update of an allowed sender, whatever its text, stays unanswered.
AtPush(t) == dpc[t] = "push"
Blocked(t) == AtPush(t) /\ Len(executeChannel) = numQueue
C21_BlockedPushHoldsPool ==
    /\ [](\A t \in DispatchThreads :
            AtPush(t) =>
               /\ poolLock = t
               /\ \A u \in DispatchThreads \ {t} :
                     /\ dpc[u] \in {"idle", "lock", "return"}
                     /\ ~ENABLED PoolLock(u, OneFile)
                     /\ ~ENABLED SendReply(u))
    /\ [][(\E t \in DispatchThreads : AtPush(t)) =>
             \A u \in DispatchThreads : Len(dsent'[u]) <= Len(dsent[u])]_vars
    /\ [][\A t \in DispatchThreads :
             Blocked(t) =>
                /\ AtPush(t)'
                /\ ~Blocked(t)' => started' = started + 1]_vars

\* a dispatch waits at its push on a full channel with the pool's lock while
\* a /start of an allowed sender waits at pool.Lock() for its reply
C21_Witness ==
    \E t1, t2 \in DispatchThreads :
       /\ Blocked(t1) /\ poolLock = t1
       /\ dpc[t2] = "lock"
       /\ update[t2].Text = "/start"
       /\ FromAllowed(t2)
       /\ dsent[t2] = <<>>

\* C22: under fair scheduling of the worker and of the dispatch goroutines
\* that hold the pool's lock, every request that is in the channel is
\* eventually delivered for (the call that processes it makes a delivery to
\* its chat), every dispatch that waits at its push on a full channel
\* eventually returns with its request pushed, and in every state in which a
\* request or a dispatch past pool.Lock() is pending some step of the worker
\* or of that dispatch is possible.
Pending ==
    \/ executeChannel # <<>>
    \/ running # {}
    \/ \E t \in DispatchThreads : InSection(t) \/ dpc[t] = "return"
C22_EveryRequestProcessed ==
    /\ \A n \in 1..MaxLiveUpdates :
          (Queued(n) # {}) ~>
             (\E call \in running :
                 /\ call.request.arrival = n
                 /\ Deliveries(call) # <<>>
                 /\ \A i \in DOMAIN Deliveries(call) :
                       Deliveries(call)[i].chat = call.request.ChatID)
    /\ \A t \in DispatchThreads :
          Blocked(t) ~> (dpc[t] = "return" /\ dpushed[t] # <<>>)
    /\ [](Pending =>
            ENABLED (\/ Worker(FewOutcomes)
                     \/ \E t \in DispatchThreads :
                           SendReply(t) \/ PushRequest(t) \/ PoolUnlock(t)
                              \/ ReturnUpdate(t)))

\* four requests are queued, the worker has not received one yet, and a
\* fifth /execute waits at its push
C22_Witness ==
    /\ started = 0
    /\ Len(executeChannel) = numQueue
    /\ \E t \in DispatchThreads : Blocked(t) /\ update[t].Text = "/execute"

\* C23: the requests that were pushed and whose processing has not returned
\* are those in the channel, at most numQueue, and the one of the worker's
\* call, so there are never more than numQueue + 1 = 5 of them; and at most
\* one dispatch is at its push with a request not yet accepted.
Unfinished ==
    {n \in 1..pushed : Queued(n) # {} \/ \E call \in running : call.request.arrival = n}
C23_AtMostFiveUnfinished ==
    /\ Cardinality(Unfinished) <= numQueue + 1
    /\ Cardinality(Unfinished) = Len(executeChannel) + Cardinality(running)
    /\ Cardinality({n \in Unfinished : Queued(n) # {}}) <= numQueue
    /\ Cardinality({n \in Unfinished : Queued(n) = {}}) <= 1
    /\ Cardinality({t \in DispatchThreads : AtPush(t)}) <= 1

\* five requests are accepted and unfinished, four queued and one being
\* delivered, and a sixth waits in a dispatch at its push
C23_Witness ==
    /\ Cardinality(Unfinished) = numQueue + 1
    /\ pushed = numQueue + 1
    /\ \E call \in running : call.pc = "fallback"
    /\ \E t \in DispatchThreads : Blocked(t)

\* C24: a processUpdate whose update has no username or a sender outside
\* the allow-list is at its return from its first step on, never waits for
\* or holds the pool's lock, and can return in every state, whoever holds the
\* lock; neither the step that delivers such an update nor the step in which
\* it returns changes the lock, the channel or the count of pushes.
Rejected(t) == Handling(t) /\ ~Allowed(update[t])
C24_NotAllowedNeverWaits ==
    /\ [](\A t \in DispatchThreads :
            Rejected(t) =>
               /\ dpc[t] = "return"
               /\ poolLock # t
               /\ dpushed[t] = <<>>
               /\ ENABLED ReturnUpdate(t))
    /\ [][\A t \in DispatchThreads :
             ((~Handling(t) /\ Rejected(t)') \/ (Rejected(t) /\ ~Handling(t)')) =>
                /\ poolLock' = poolLock
                /\ executeChannel' = executeChannel
                /\ pushed' = pushed]_vars

\* an update without username has reached its return while the other
\* dispatch waits at its push on a full channel with the pool's lock
C24_Witness ==
    \E t1, t2 \in DispatchThreads :
       /\ Blocked(t1) /\ poolLock = t1
       /\ dpc[t2] = "return"
       /\ update[t2].From = NoUsername
       /\ update[t2].Text = "/execute"
====
